---- MODULE Spec2Model ----
(***************************************************************************)
(* IceCore: the request dispatch pipeline (src/src/delegates.rs,           *)
(* src/src/lib.rs) and the sandboxed application container with its        *)
(* migration engine (src/src/lssa/app.rs).                                 *)
(*                                                                         *)
(* Two state machines share this module.  SpecMigration drives one         *)
(* Application through start_migration / complete_migration and arbitrary  *)
(* mutation of its memory, globals and namespace state.  SpecDispatch      *)
(* drives fire_handlers: one request future from arrival to resolution,    *)
(* with the external handler as an independent actor.                      *)
(***************************************************************************)
EXTENDS Integers, Sequences, FiniteSets, TLC

\* ---------------------------------------------------------------- bounds

\* Largest linear memory, in bytes, the model explores.
MaxMem == 2

\* Number of globals the compiled module declares (rt.source_module.globals.len()).
NGlobals == 2

\* Values a memory byte / a global may take.
ByteVals == {0, 255}
GlobalVals == {0, 42}

\* Values of a namespace's internal state.
NsVals == {0, 1}

\* No snapshot (a record, as snapshots are).
NoSnapshot == [absent |-> TRUE]

\* ------------------------------------------------- sequences (helpers)

\* All sequences over S of length lo..hi.
SeqsOf(S, lo, hi) == UNION {[1..n -> S] : n \in lo..hi}

\* n zero bytes.
Zeros(n) == [i \in 1..n |-> 0]

\* =====================================================================
\* Application container and migration engine (src/src/lssa/app.rs)
\* =====================================================================

VARIABLES
    mem,        \* the sandbox's linear memory (rt.get_memory()), a byte sequence
    globals,    \* the sandbox's global storage, NGlobals values in declaration order
    nsState,    \* nsState[k][n]: internal state of namespace n of resolver k
    snap,       \* the snapshot returned by the last start_migration, or NoSnapshot
    capState,   \* memory, globals and namespace state at the time snap was captured
    last        \* what the last start_migration / complete_migration call did, or NoCall

migVars == <<mem, globals, nsState, snap, capState, last>>

VARIABLES
    currently_inside,   \* app.currently_inside: the reentrancy counter
    stack,              \* the active entries into the Application, outermost first
    exports,            \* names of the functions the module exports besides the
                        \* five entry points
    entered,            \* the last call made to an exported function of the sandbox
    returned            \* how the last initialize / invokeK call ended

invokeVars == <<currently_inside, stack, exports, entered, returned>>

VARIABLES
    registry,           \* the deployment registry: application name -> id
    config,             \* config_state.config.applications, by id
    perm                \* the check_permission call under way or last made

permVars == <<registry, config, perm>>

VARIABLES
    ctx,                \* the shared ice_server::Context
    sessions,           \* ids the session store currently holds
    nextSid,            \* number of sessions the store has created so far
    pc,                 \* where the request's future stands
    req,                \* the transport request: its URI and Cookie header
    target_req,         \* the glue::Request being built / handed off
    ep_id,
    read_body,
    init_session,
    cookies_to_append,  \* Set-Cookie entries scheduled for the response
    body,               \* the accumulating buffer
    sent,               \* the chunks the transport has delivered, in order
    chan,               \* the oneshot channel and the side holding its sender
    calls,              \* calls made to the external handler for this request
    result,             \* what the returned future resolved to
    resolved,           \* how many times the returned future resolved
    orphan              \* call handles of dropped tasks the handler still holds, and
                        \* what the last ice_core_fire_callback on one returned

dispatchVars == <<ctx, sessions, nextSid, pc, req, target_req, ep_id, read_body,
                  init_session, cookies_to_append, body, sent, chan, calls,
                  result, resolved, orphan>>

appVars == <<migVars, invokeVars, permVars>>

vars == <<appVars, dispatchVars>>

\* The Application's code identity hash, and the hash of some other build.
AppHash == "sha-A"
OtherHash == "sha-B"
Hashes == {AppHash, OtherHash}

\* app.resolvers: a BTreeMap, iterated in key order; Application::new inserts
\* "cwa" and "ice".
ResolverNames == <<"cwa", "ice">>

\* The namespaces each resolver registered at init, in iteration order.
Namespaces(k) == IF k = "cwa" THEN <<"io">> ELSE <<"logging", "timer">>

RECURSIVE PairsFrom(_)
\* Every resolver/namespace pair in the order the nested loops visit them,
\* from resolver number i on.
PairsFrom(i) ==
    IF i > Len(ResolverNames) THEN <<>>
    ELSE [j \in 1..Len(Namespaces(ResolverNames[i])) |->
              <<ResolverNames[i], Namespaces(ResolverNames[i])[j]>>]
         \o PairsFrom(i + 1)

Pairs == PairsFrom(1)

PairSet == {Pairs[i] : i \in 1..Len(Pairs)}

ResolverSet == {ResolverNames[i] : i \in 1..Len(ResolverNames)}

NamespaceSet(k) == {Namespaces(k)[j] : j \in 1..Len(Namespaces(k))}

\* A namespace's migration hooks: capture yields an opaque blob holding the
\* namespace's state, or nothing; restore installs the state a blob holds.
NsStartMigration(s, supported) == IF supported THEN <<"blob", s>> ELSE <<"nothing">>

NsCompleteMigration(blob) == blob[2]

Blobs == {NsStartMigration(s, TRUE) : s \in NsVals}

\* ---- start_migration

\* A capture that leaves the last resolver out of the snapshot.
CaptureModulesPartial(ns, hook) ==
    [k \in ResolverSet \ {ResolverNames[Len(ResolverNames)]} |->
        [n \in NamespaceSet(k) |-> NsStartMigration(ns[k][n], hook[<<k, n>>])]]

\* mig.modules: one entry per resolver, holding one blob per namespace.
CaptureModules(ns, hook) ==
    [k \in ResolverSet |->
        [n \in NamespaceSet(k) |-> NsStartMigration(ns[k][n], hook[<<k, n>>])]]

\* A capture that leaves out the last byte of the memory.
CaptureMemoryShort(m) == SubSeq(m, 1, Len(m) - 1)

\* mig.memory: the whole linear memory, byte for byte.
CaptureMemory(m) == m

\* mig.globals: global_begin[0 .. globals.len()), in declaration order.
CaptureGlobals(g) == [i \in 1..NGlobals |-> g[i]]

\* start_migration: the snapshot, or a panic when a capture hook yields nothing.
StartMigrationResult(m, g, ns, hook) ==
    IF \E p \in PairSet : ~hook[p]
    THEN [outcome |-> "panic_unable_to_migrate", mig |-> NoSnapshot]
    ELSE [outcome |-> "captured",
          mig |-> [code_sha256 |-> AppHash,
                   memory |-> CaptureMemory(m),
                   globals |-> CaptureGlobals(g),
                   modules |-> CaptureModules(ns, hook)]]

\* ---- complete_migration

\* A restore that never compares the hashes.
ChecksumUnchecked(mig) == FALSE

\* mig.code_sha256 != self.code_sha256
ChecksumMismatch(mig) == mig.code_sha256 # AppHash

\* A restore that replaces the memory by the snapshot's, shrinking it.
RestoreMemoryShrinking(m, mig) == mig.memory

\* Grow the memory when the snapshot is longer, then copy the snapshot over
\* its low region.
RestoreMemory(m, mig) ==
    LET grown == IF Len(m) < Len(mig.memory)
                 THEN m \o Zeros(Len(mig.memory) - Len(m))
                 ELSE m
    IN  [i \in 1..Len(grown) |->
            IF i <= Len(mig.memory) THEN mig.memory[i] ELSE grown[i]]

\* rt.source_module.globals.len() != mig.globals.len()
GlobalLenMismatch(mig) == NGlobals # Len(mig.globals)

\* globals.copy_from_slice(&mig.globals)
RestoreGlobals(g, mig) == [i \in 1..NGlobals |-> mig.globals[i]]

RECURSIVE RestoreNamespacesSkipping(_, _, _, _)
\* A restore that skips a namespace whose blob is missing instead of failing.
RestoreNamespacesSkipping(i, ns, fed, mig) ==
    IF i > Len(Pairs) THEN [outcome |-> "restored", ns |-> ns, fed |-> fed]
    ELSE LET k == Pairs[i][1]
             n == Pairs[i][2]
         IN  IF k \notin DOMAIN mig.modules \/ n \notin DOMAIN mig.modules[k]
             THEN RestoreNamespacesSkipping(i + 1, ns, fed, mig)
             ELSE RestoreNamespacesSkipping(
                      i + 1,
                      [ns EXCEPT ![k][n] = NsCompleteMigration(mig.modules[k][n])],
                      Append(fed, <<k, n, mig.modules[k][n]>>),
                      mig)

RECURSIVE RestoreNamespaces(_, _, _, _)
\* The nested loops over resolvers and namespaces from pair number i on:
\* ns is the namespace state so far, fed the hook calls made so far.
RestoreNamespaces(i, ns, fed, mig) ==
    IF i > Len(Pairs) THEN [outcome |-> "restored", ns |-> ns, fed |-> fed]
    ELSE LET k == Pairs[i][1]
             n == Pairs[i][2]
         IN  IF k \notin DOMAIN mig.modules
             THEN [outcome |-> "panic_module_not_found", ns |-> ns, fed |-> fed]
             ELSE IF n \notin DOMAIN mig.modules[k]
             THEN [outcome |-> "panic_namespace_not_found", ns |-> ns, fed |-> fed]
             ELSE RestoreNamespaces(
                      i + 1,
                      [ns EXCEPT ![k][n] = NsCompleteMigration(mig.modules[k][n])],
                      Append(fed, <<k, n, mig.modules[k][n]>>),
                      mig)

\* complete_migration: the outcome and the Application's state when the call
\* ends, by returning or by panicking.
CompleteMigrationResult(m, g, ns, mig) ==
    IF ChecksumMismatch(mig)
    THEN [outcome |-> "panic_checksum", mem |-> m, globals |-> g, ns |-> ns, fed |-> <<>>]
    ELSE LET m2 == RestoreMemory(m, mig)
         IN  IF GlobalLenMismatch(mig)
             THEN [outcome |-> "panic_global_len", mem |-> m2, globals |-> g,
                   ns |-> ns, fed |-> <<>>]
             ELSE LET r == RestoreNamespaces(1, ns, <<>>, mig)
                  IN  [outcome |-> r.outcome, mem |-> m2,
                       globals |-> RestoreGlobals(g, mig),
                       ns |-> r.ns, fed |-> r.fed]

\* ---- snapshots that did not come from this Application

\* Memory and global contents of a foreign snapshot of length n.
ForeignBytes(n) == [i \in 1..n |-> IF i % 2 = 1 THEN 255 ELSE 0]

ForeignGlobalValues(n) == [i \in 1..n |-> IF i % 2 = 1 THEN 42 ELSE 0]

\* Per-resolver blob maps that may lack namespaces.
ModuleMigrations(k) == UNION {[nn -> {<<"blob", 1>>}] : nn \in SUBSET NamespaceSet(k)}

\* Module maps that may lack resolvers.
ForeignModules ==
    UNION {{f \in [ks -> UNION {ModuleMigrations(k) : k \in ks}] :
               \A k \in ks : f[k] \in ModuleMigrations(k)} : ks \in SUBSET ResolverSet}

ForeignSnapshots ==
    [code_sha256 : Hashes,
     memory : {ForeignBytes(n) : n \in 0..MaxMem},
     globals : {ForeignGlobalValues(n) : n \in (NGlobals - 1)..(NGlobals + 1)},
     modules : ForeignModules]

\* ---- actions

\* No migration call has been made since the Application last ran.
NoCall == [op |-> "none", origin |-> "none", outcome |-> "none",
           mig |-> NoSnapshot, fed |-> <<>>]

\* A panic unwinds out of the Application: nothing runs on it afterwards.
Panicked == last.outcome \notin {"none", "captured", "restored"}

\* Sandboxed code writes a memory byte.
WriteByte(i, b) ==
    /\ ~Panicked
    /\ i \in 1..Len(mem)
    /\ mem[i] # b
    /\ mem' = [mem EXCEPT ![i] = b]
    /\ last' = NoCall
    /\ UNCHANGED <<globals, nsState, snap, capState>>
    /\ UNCHANGED <<dispatchVars, invokeVars, permVars>>

\* Sandboxed code grows the memory by one (zeroed) byte.
GrowMemory ==
    /\ ~Panicked
    /\ Len(mem) < MaxMem
    /\ mem' = Append(mem, 0)
    /\ last' = NoCall
    /\ UNCHANGED <<globals, nsState, snap, capState>>
    /\ UNCHANGED <<dispatchVars, invokeVars, permVars>>

\* Sandboxed code assigns a global.
SetGlobal(i, v) ==
    /\ ~Panicked
    /\ i \in 1..NGlobals
    /\ globals[i] # v
    /\ globals' = [globals EXCEPT ![i] = v]
    /\ last' = NoCall
    /\ UNCHANGED <<mem, nsState, snap, capState>>
    /\ UNCHANGED <<dispatchVars, invokeVars, permVars>>

\* A native call changes a namespace's internal state.
NsMutate(k, n, v) ==
    /\ ~Panicked
    /\ nsState[k][n] # v
    /\ nsState' = [nsState EXCEPT ![k][n] = v]
    /\ last' = NoCall
    /\ UNCHANGED <<mem, globals, snap, capState>>
    /\ UNCHANGED <<dispatchVars, invokeVars, permVars>>

\* start_migration; hook[p] tells whether pair p's capture hook yields data.
StartMigration(hook) ==
    /\ ~Panicked
    /\ LET r == StartMigrationResult(mem, globals, nsState, hook)
       IN  /\ last' = [op |-> "start_migration", origin |-> "self",
                       outcome |-> r.outcome, mig |-> r.mig, fed |-> <<>>]
           /\ IF r.outcome = "captured"
              THEN /\ snap' = r.mig
                   /\ capState' = [mem |-> mem, globals |-> globals, ns |-> nsState]
              ELSE UNCHANGED <<snap, capState>>
    /\ UNCHANGED <<mem, globals, nsState>>
    /\ UNCHANGED <<dispatchVars, invokeVars, permVars>>

\* The effect of complete_migration(mig) on the Application.
ApplyRestore(mig, origin) ==
    LET r == CompleteMigrationResult(mem, globals, nsState, mig)
    IN  /\ mem' = r.mem
        /\ globals' = r.globals
        /\ nsState' = r.ns
        /\ last' = [op |-> "complete_migration", origin |-> origin,
                    outcome |-> r.outcome, mig |-> mig, fed |-> r.fed]

\* complete_migration of the snapshot captured earlier from this Application;
\* the snapshot is consumed.
CompleteMigrationOwn ==
    /\ ~Panicked
    /\ snap # NoSnapshot
    /\ ApplyRestore(snap, "self")
    /\ snap' = NoSnapshot
    /\ capState' = NoSnapshot
    /\ UNCHANGED <<dispatchVars, invokeVars, permVars>>

\* complete_migration of a snapshot that arrived from elsewhere.
CompleteMigrationForeign(mig) ==
    /\ ~Panicked
    /\ snap = NoSnapshot
    /\ ApplyRestore(mig, "foreign")
    /\ UNCHANGED <<snap, capState>>
    /\ UNCHANGED <<dispatchVars, invokeVars, permVars>>

InitApplication ==
    /\ mem \in SeqsOf(ByteVals, 0, MaxMem)
    /\ globals \in [1..NGlobals -> GlobalVals]
    /\ nsState = [k \in ResolverSet |-> [n \in NamespaceSet(k) |-> 0]]
    /\ snap = NoSnapshot
    /\ capState = NoSnapshot
    /\ last = NoCall

\* =====================================================================
\* Application container: invocation, initialization, permission check
\* (src/src/lssa/app.rs)
\* =====================================================================

\* Entries into one Application that are active at a time, at most.
MaxDepth == 2

\* ---- 32- and 64-bit values

\* An i32 is the integer it denotes.  A u32 is two and an i64 four 16-bit
\* limbs, least significant first.
Limb == 2^16

I32Max == (2^30 - 1) + 2^30

I32Min == 0 - I32Max - 1

\* x as u32: the same 32 bits.
AsU32(x) ==
    LET lo == x % Limb
    IN  <<lo, ((x - lo) \div Limb) % Limb>>

\* An argument widened with its sign.
ArgSignExtended(x) ==
    AsU32(x) \o (IF x < 0 THEN <<Limb - 1, Limb - 1>> ELSE <<0, 0>>)

\* (x as u32) as i64: the upper 32 bits are zero.
ArgAsI64(x) == AsU32(x) \o <<0, 0>>

\* A result read through its upper 32 bits.
ResultFromUpperHalf(w) ==
    IF w[4] >= Limb \div 2 THEN (w[4] - Limb) * Limb + w[3] ELSE w[4] * Limb + w[3]

\* (w : i64) as i32: the low 32 bits, read as a signed integer.
ResultAsI32(w) ==
    IF w[2] >= Limb \div 2 THEN (w[2] - Limb) * Limb + w[1] ELSE w[2] * Limb + w[1]

\* ---- inputs

\* 32-bit values callers pass.
I32List == <<I32Min, 0 - 1, 0, 1, I32Max>>

\* (target, arg1 .. argK) for invokeK: the values of I32List from place s on.
InvokeInput(k, s) == [i \in 1..(k + 1) |-> I32List[((s + i - 2) % Len(I32List)) + 1]]

InvokeInputs(k) == {InvokeInput(k, s) : s \in 1..Len(I32List)}

\* 64-bit values sandboxed functions return.
RawResults ==
    { <<0, 0, 0, 0>>,
      <<5, 0, 0, 0>>,
      <<5, 0, 1, 0>>,
      <<0, 0, 1, 0>>,
      <<Limb - 1, Limb - 1, 0, 0>>,
      <<Limb - 1, Limb - 1, Limb - 1, Limb - 1>>,
      <<0, Limb \div 2, 0, 0>> }

\* The default initializer and the names callers of initialize pass.
DefaultInitializer == "__app_init"

InitializerNames == {<<>>, <<"setup">>, <<"teardown">>}

\* Functions a module may export besides the entry points.
ExportableNames == {DefaultInitializer, "setup"}

\* ---- the entry points

\* The exported entry points Application::new looks up, by argument count.
EntryPointNames ==
    <<"__app_invoke0", "__app_invoke1", "__app_invoke2", "__app_invoke3", "__app_invoke4">>

\* An invokeK that calls the entry point of one argument fewer.
InvokeFnShifted(k) == EntryPointNames[IF k = 0 THEN 1 ELSE k]

\* self.invokeK_fn
InvokeFn(k) == EntryPointNames[k + 1]

\* The calls invokeK(target, arg1 .. argK) makes into the sandbox.
EntryCalls(k, input) ==
    << [fn |-> InvokeFn(k), args |-> [i \in 1..Len(input) |-> ArgAsI64(input[i])]] >>

\* ---- the reentrancy guard

\* AppInsideHandle::new
InsideHandleNew(v) == v + 1

\* A guard whose drop leaves the counter as it is.
InsideHandleLeaked(v) == v

\* Drop for AppInsideHandle
InsideHandleDrop(v) == v - 1

RECURSIVE Unwound(_, _)
\* The counter after a panic unwound every active entry: each initialize
\* frame drops its guard.
Unwound(frames, v) ==
    IF frames = <<>> THEN v
    ELSE Unwound(Tail(frames),
                 IF Head(frames).op = "initialize" THEN InsideHandleDrop(v) ELSE v)

\* ---- actions

NothingEntered == [op |-> "none", k |-> 0, input |-> <<>>, calls |-> <<>>]

NothingReturned == [op |-> "none", outcome |-> "none", raw |-> <<>>, ret |-> 0, before |-> 0]

\* A panic or an abort left the Application: nothing runs on it afterwards.
HostDown == returned.outcome \in {"panic_initializer_failure", "panic_trap", "abort"}

\* The innermost active entry.
Top == stack[Len(stack)]

Pop(s) == SubSeq(s, 1, Len(s) - 1)

\* invokeK(target, arg1 .. argK) is called and enters the sandbox.
InvokeCall(k, input) ==
    /\ ~HostDown
    /\ Len(stack) < MaxDepth
    /\ stack' = Append(stack, [op |-> "invoke", before |-> currently_inside])
    /\ entered' = [op |-> "invoke", k |-> k, input |-> input, calls |-> EntryCalls(k, input)]
    /\ UNCHANGED <<currently_inside, exports, returned>>
    /\ UNCHANGED <<migVars, permVars, dispatchVars>>

\* The entry point returns raw and invokeK returns to its caller.
InvokeReturn(raw) ==
    /\ ~HostDown
    /\ stack # <<>>
    /\ Top.op = "invoke"
    /\ stack' = Pop(stack)
    /\ returned' = [op |-> "invoke", outcome |-> "returned", raw |-> raw,
                    ret |-> ResultAsI32(raw), before |-> Top.before]
    /\ UNCHANGED <<currently_inside, exports, entered>>
    /\ UNCHANGED <<migVars, permVars, dispatchVars>>

\* initializer_name.unwrap_or("__app_init")
InitializerName(initializer_name) ==
    IF initializer_name = <<>> THEN DefaultInitializer ELSE initializer_name[1]

\* self.module.lookup_exported_func(name) is Some
LookupExportedFunc(exported, name) == name \in exported

\* A failure test that reads the low 32 bits of the initializer's result.
InitializerFailedLow32(ret) == ResultAsI32(ret) # 0

\* ret != 0, on the i64 the initializer returned
InitializerFailed(ret) == ret # <<0, 0, 0, 0>>

\* initialize(initializer_name): the guard is taken, the initializer looked
\* up and, when the module exports it, entered.
InitializeCall(initializer_name) ==
    /\ ~HostDown
    /\ Len(stack) < MaxDepth
    /\ LET name == InitializerName(initializer_name)
           inside == InsideHandleNew(currently_inside)
       IN  IF ~LookupExportedFunc(exports, name)
           THEN /\ currently_inside' = InsideHandleDrop(inside)
                /\ returned' = [op |-> "initialize", outcome |-> "absent", raw |-> <<>>,
                                ret |-> 0, before |-> currently_inside]
                /\ UNCHANGED <<stack, entered>>
           ELSE /\ currently_inside' = inside
                /\ stack' = Append(stack, [op |-> "initialize",
                                           before |-> currently_inside])
                /\ entered' = [op |-> "initialize", k |-> 0, input |-> initializer_name,
                               calls |-> << [fn |-> name, args |-> <<>>] >>]
                /\ UNCHANGED returned
    /\ UNCHANGED exports
    /\ UNCHANGED <<migVars, permVars, dispatchVars>>

\* The initializer returns raw: zero ends initialize, anything else panics
\* and the panic unwinds every active entry.
InitializeReturn(raw) ==
    /\ ~HostDown
    /\ stack # <<>>
    /\ Top.op = "initialize"
    /\ IF InitializerFailed(raw)
       THEN /\ stack' = <<>>
            /\ currently_inside' = Unwound(stack, currently_inside)
            /\ returned' = [op |-> "initialize", outcome |-> "panic_initializer_failure",
                            raw |-> raw, ret |-> 0, before |-> stack[1].before]
       ELSE /\ stack' = Pop(stack)
            /\ currently_inside' = InsideHandleDrop(currently_inside)
            /\ returned' = [op |-> "initialize", outcome |-> "ok", raw |-> raw,
                            ret |-> 0, before |-> Top.before]
    /\ UNCHANGED <<exports, entered>>
    /\ UNCHANGED <<migVars, permVars, dispatchVars>>

\* What rt.protected_call does when the code it runs traps is the runtime's
\* business: the wrappers return a bare integer, so the call either unwinds
\* with a panic or takes the process down.
TrapOutcomes == {"panic_trap", "abort"}

\* The sandboxed code of the innermost entry traps.
Trap(outcome) ==
    /\ ~HostDown
    /\ stack # <<>>
    /\ IF outcome = "abort"
       THEN UNCHANGED <<stack, currently_inside>>
       ELSE /\ stack' = <<>>
            /\ currently_inside' = Unwound(stack, currently_inside)
    /\ returned' = [op |-> Top.op, outcome |-> outcome, raw |-> <<>>, ret |-> 0,
                    before |-> stack[1].before]
    /\ UNCHANGED <<exports, entered>>
    /\ UNCHANGED <<migVars, permVars, dispatchVars>>

\* The Application as Application::new leaves it.
InitContainer ==
    /\ currently_inside = 0
    /\ stack = <<>>
    /\ exports \in SUBSET ExportableNames
    /\ entered = NothingEntered
    /\ returned = NothingReturned

\* ---- check_permission

\* self.name, and another application the registry may hold.
AppName == "app"

AppNames == {AppName, "other"}

\* The capabilities an application's configuration may declare.
Permissions == {"timer", "tcp"}

\* Configuration snapshots: the deployed applications in id order, each with
\* its name and declared permission set; no two share a name.
ConfigSnapshots ==
    {<<>>}
    \cup {<<[name |-> n, permissions |-> ps]>> : n \in AppNames, ps \in SUBSET Permissions}
    \cup {<<[name |-> nm[1], permissions |-> ps], [name |-> nm[2], permissions |-> qs]>> :
              nm \in {x \in AppNames \X AppNames : x[1] # x[2]},
              ps \in SUBSET Permissions, qs \in SUBSET Permissions}

\* The registry of a snapshot: every deployed name with its id (ids count
\* from 0).
RegistryOf(cfg) ==
    [n \in {cfg[i].name : i \in 1..Len(cfg)} |->
        (CHOOSE i \in 1..Len(cfg) : cfg[i].name = n) - 1]

\* container.lookup_app_id_by_name(name): the id, if the name is registered.
LookupAppIdByName(reg, name) == IF name \in DOMAIN reg THEN <<reg[name]>> ELSE <<>>

\* A check that authorizes whatever the entry declares.
PermissionResultAlwaysOk(app_config, p) == "ok"

\* if !app_config.metadata.permissions.contains(perm) { Err(()) } else { Ok(()) }
PermissionResult(app_config, p) == IF p \notin app_config.permissions THEN "err" ELSE "ok"

NoCheck == [pc |-> "idle", requested |-> "none", id |-> 0, outcome |-> "none"]

\* check_permission(p), first statement: the Application's id is looked up
\* by name and unwrapped.
CheckPermissionLookup(p) ==
    /\ perm.pc = "idle"
    /\ LET found == LookupAppIdByName(registry, AppName)
       IN  perm' = IF found = <<>>
                   THEN [pc |-> "panicked", requested |-> p, id |-> 0,
                         outcome |-> "panic_unwrap_none"]
                   ELSE [pc |-> "looked_up", requested |-> p, id |-> found[1],
                         outcome |-> "none"]
    /\ UNCHANGED <<registry, config>>
    /\ UNCHANGED <<migVars, invokeVars, dispatchVars>>

\* check_permission, the rest: under the read lock the configuration entry
\* of that id is indexed and its permission set tested.
CheckPermissionRead ==
    /\ perm.pc = "looked_up"
    /\ perm' = IF perm.id >= Len(config)
               THEN [perm EXCEPT !.pc = "panicked", !.outcome = "panic_index_out_of_bounds"]
               ELSE [perm EXCEPT !.pc = "idle",
                                 !.outcome = PermissionResult(config[perm.id + 1],
                                                              perm.requested)]
    /\ UNCHANGED <<registry, config>>
    /\ UNCHANGED <<migVars, invokeVars, dispatchVars>>

\* A configuration reload, under the write lock: applications are deployed
\* and undeployed, the registry follows.
ReloadConfig(cfg) ==
    /\ perm.pc # "panicked"
    /\ cfg # config
    /\ config' = cfg
    /\ registry' = RegistryOf(cfg)
    /\ UNCHANGED perm
    /\ UNCHANGED <<migVars, invokeVars, dispatchVars>>

\* The registry and configuration some deployment left.
InitRegistry ==
    /\ config \in ConfigSnapshots
    /\ registry = RegistryOf(config)
    /\ perm = NoCheck

\* =====================================================================
\* Request dispatch pipeline (src/src/delegates.rs, src/src/lib.rs)
\* =====================================================================

\* Strings are sequences of one-character strings.  Session ids are numbers:
\* 0 stands for the empty string, 1.. for the ids the session store hands out.

\* Largest configured max_request_body_size the model explores.
MaxBody == 2

\* Body chunks the transport delivers per request, at most.
MaxChunks == 2

\* Sessions the session store creates, at most.
MaxSessions == 2

\* Call handles of dropped tasks the handler holds at a time, at most.
MaxOrphans == 1

\* ---- strings

Min(S) == CHOOSE x \in S : \A y \in S : x <= y

\* uri.split("?").nth(0)
BeforeQuery(uri) ==
    LET qs == {i \in 1..Len(uri) : uri[i] = "?"}
    IN  IF qs = {} THEN uri ELSE SubSeq(uri, 1, Min(qs) - 1)

\* s.starts_with(p)
StartsWith(s, p) == Len(s) >= Len(p) /\ SubSeq(s, 1, Len(p)) = p

RECURSIVE SplitOn(_, _)
\* s.split(c): the pieces between occurrences of c, empty pieces included.
SplitOn(s, c) ==
    LET cs == {i \in 1..Len(s) : s[i] = c}
    IN  IF cs = {} THEN <<s>>
        ELSE <<SubSeq(s, 1, Min(cs) - 1)>> \o SplitOn(SubSeq(s, Min(cs) + 1, Len(s)), c)

NonEmpty(x) == Len(x) > 0

\* url.split("/").filter(|x| x.len() > 0)
Segments(url) == SelectSeq(SplitOn(url, "/"), NonEmpty)

\* ---- router

\* The route table registered at setup: id, path pattern, declared parameter
\* names and flags of each endpoint.
Routes ==
    << [id |-> 0, pattern |-> << <<"a">> >>, param_names |-> <<>>,
        read_body |-> FALSE, init_session |-> FALSE],
       [id |-> 1, pattern |-> << <<"b">> >>, param_names |-> <<>>,
        read_body |-> TRUE, init_session |-> FALSE],
       [id |-> 2, pattern |-> << <<"s">> >>, param_names |-> <<>>,
        read_body |-> FALSE, init_session |-> TRUE],
       [id |-> 3, pattern |-> << <<"u">>, <<":", "x">> >>, param_names |-> << <<"x">> >>,
        read_body |-> TRUE, init_session |-> TRUE],
       [id |-> 4, pattern |-> << <<"s", "t", "a", "t", "i", "c">>, <<"r">> >>,
        param_names |-> <<>>, read_body |-> FALSE, init_session |-> FALSE],
       [id |-> 5, pattern |-> << <<"p">>, <<":", "a">>, <<":", "b">> >>,
        param_names |-> << <<"a">>, <<"b">> >>,
        read_body |-> FALSE, init_session |-> FALSE] >>

\* A route's pattern matches a path: literal segments are equal, a parameter
\* segment of the pattern takes any segment.
RouteMatches(pattern, url) ==
    LET segs == Segments(url)
    IN  /\ Len(segs) = Len(pattern)
        /\ \A i \in 1..Len(segs) : StartsWith(pattern[i], <<":">>) \/ pattern[i] = segs[i]

\* router.get_raw_endpoint(url): the matches, first registered first.
GetRawEndpoint(url) ==
    SelectSeq(Routes, LAMBDA r : RouteMatches(r.pattern, url))

\* ---- inputs

SessionCookieName == "ice_session"

\* URIs the transport presents.
Uris ==
    { <<"/", "a">>,
      <<"/", "b", "?", "q">>,
      <<"/", "s">>,
      <<"/", "u", "/", ":", "7">>,
      <<"/", "p", "/", ":", "1", "/", ":", "2", "3">>,
      <<"/", "z">>,
      <<"/", "s", "t", "a", "t", "i", "c", "/", "f">>,
      <<"/", "s", "t", "a", "t", "i", "c", "/", "r">> }

\* Cookie headers the transport presents: none, a session cookie with an
\* empty, issued or never issued id, and other cookies.
CookieHeaders ==
    {[present |-> FALSE, pairs |-> <<>>]}
    \cup {[present |-> TRUE, pairs |-> << <<SessionCookieName, c>> >>] :
             c \in 0..(MaxSessions + 1)}
    \cup {[present |-> TRUE, pairs |-> << <<"lang", 1>>, <<SessionCookieName, 1>> >>]}

\* Body chunks the transport delivers.
Chunks == { <<7>>, <<8, 9>> }

\* Response Envelopes the external handler sends.
Responses ==
    { [status |-> 200, headers |-> <<>>, cookies |-> <<>>, body |-> <<>>],
      [status |-> 404,
       headers |-> << <<"Set-Cookie", "stale">>, <<"Content-Length", "9">>,
                      <<"X-Powered-By", "other">>, <<"X-Extra", "e">> >>,
       cookies |-> << <<"k", 5>> >>, body |-> <<1, 2>>] }

\* ---- fire_handlers, up to the returned future

\* The session id the Cookie header carries: the value of the last cookie
\* named as the session cookie, or the empty string.
RECURSIVE SessionIdFrom(_, _)
SessionIdFrom(pairs, acc) ==
    IF pairs = <<>> THEN acc
    ELSE SessionIdFrom(Tail(pairs),
                       IF Head(pairs)[1] = SessionCookieName THEN Head(pairs)[2] ELSE acc)

PresentedSessionId(header) == IF header.present THEN SessionIdFrom(header.pairs, 0) ELSE 0

\* target_req.add_cookie for every cookie of the header.
RequestCookies(header) ==
    [k \in {header.pairs[i][1] : i \in 1..Len(header.pairs)} |->
        LET is == {i \in 1..Len(header.pairs) : header.pairs[i][1] = k}
        IN  header.pairs[CHOOSE i \in is : \A j \in is : j <= i][2]]

\* The marker segments of the path, in path order.
MarkerSegments(url) == SelectSeq(Segments(url), LAMBDA p : StartsWith(p, <<":">>))

\* A binding that keeps the marker in the value.
BindParamsKeepingMarker(ep, url) ==
    LET ms == MarkerSegments(url)
    IN  [n \in {ep.param_names[i] : i \in 1..Len(ms)} |->
            ms[CHOOSE i \in 1..Len(ms) : ep.param_names[i] = n]]

\* target_req.add_param(ep.param_names[pn_pos], &p[1..]) for every marker
\* segment.
BindParams(ep, url) ==
    LET ms == MarkerSegments(url)
    IN  [n \in {ep.param_names[i] : i \in 1..Len(ms)} |->
            Tail(ms[CHOOSE i \in 1..Len(ms) : ep.param_names[i] = n])]

StaticPrefix == <<"/", "s", "t", "a", "t", "i", "c">>

\* A routing that tries the static prefix before the router.
RouteStaticFirst(url, static_dir) ==
    LET raw_ep == GetRawEndpoint(url)
    IN  IF StartsWith(url, StaticPrefix \o <<"/">>) /\ static_dir
        THEN [kind |-> "static", ep_id |-> 0 - 1, read_body |-> FALSE,
              init_session |-> FALSE, params |-> <<>>]
        ELSE IF raw_ep # <<>>
        THEN [kind |-> "endpoint", ep_id |-> raw_ep[1].id,
              read_body |-> raw_ep[1].read_body,
              init_session |-> raw_ep[1].init_session,
              params |-> BindParams(raw_ep[1], url)]
        ELSE [kind |-> "none", ep_id |-> 0 - 1, read_body |-> FALSE,
              init_session |-> FALSE, params |-> <<>>]

\* The routing decision: the matched endpoint's id and flags, or -1 and no
\* flags, or the delegation to the static-file collaborator.
Route(url, static_dir) ==
    LET raw_ep == GetRawEndpoint(url)
    IN  IF raw_ep # <<>>
        THEN [kind |-> "endpoint", ep_id |-> raw_ep[1].id,
              read_body |-> raw_ep[1].read_body,
              init_session |-> raw_ep[1].init_session,
              params |-> BindParams(raw_ep[1], url)]
        ELSE IF StartsWith(url, StaticPrefix \o <<"/">>) /\ static_dir
        THEN [kind |-> "static", ep_id |-> 0 - 1, read_body |-> FALSE,
              init_session |-> FALSE, params |-> <<>>]
        ELSE [kind |-> "none", ep_id |-> 0 - 1, read_body |-> FALSE,
              init_session |-> FALSE, params |-> <<>>]

\* session_storage.create_session(): a session under an id never used before.
CreateSession(next) == next + 1

\* session_storage.get_session(id): the stored session of that id, if any.
GetSession(store, session_id) == IF session_id \in store THEN <<session_id>> ELSE <<>>

\* A session decision that never looks the presented id up.
SessionDecisionAlwaysNew(flag, session_id, store, next) ==
    IF ~flag THEN [attach |-> <<>>, is_new |-> FALSE]
    ELSE [attach |-> <<CreateSession(next)>>, is_new |-> TRUE]

\* The session decision: which session is attached and whether it is new.
SessionDecision(flag, session_id, store, next) ==
    IF ~flag THEN [attach |-> <<>>, is_new |-> FALSE]
    ELSE IF session_id = 0 THEN [attach |-> <<CreateSession(next)>>, is_new |-> TRUE]
    ELSE IF GetSession(store, session_id) # <<>>
    THEN [attach |-> GetSession(store, session_id), is_new |-> FALSE]
    ELSE [attach |-> <<CreateSession(next)>>, is_new |-> TRUE]

\* A scheduling that sets the cookie for every attached session, new or not.
ScheduledCookiesAlways(d) ==
    IF d.attach # <<>> THEN << <<SessionCookieName, d.attach[1]>> >> ELSE <<>>

\* cookies_to_append after the session decision.
ScheduledCookies(d) ==
    IF d.is_new THEN << <<SessionCookieName, d.attach[1]>> >> ELSE <<>>

\* The parse of every URI and Cookie header the transport presents.
RouteOf == [uri \in Uris |-> [static_dir \in BOOLEAN |-> Route(BeforeQuery(uri), static_dir)]]

UrlOf == [uri \in Uris |-> BeforeQuery(uri)]

SessionIdOf == [header \in CookieHeaders |-> PresentedSessionId(header)]

CookiesOf == [header \in CookieHeaders |-> RequestCookies(header)]

NoResult == [kind |-> "none"]

EmptyRequest == [uri |-> <<>>, cookies |-> <<>>, params |-> <<>>, session |-> <<>>,
                 body |-> <<>>]

\* A transport request arrives and fire_handlers runs up to the future it
\* returns: parsing, routing, the session decision, the fresh channel.
FireHandlers(uri, header) ==
    /\ pc \in {"idle", "done", "static", "dropped"}
    /\ LET url == UrlOf[uri]
           rt == RouteOf[uri][ctx.static_dir]
           d == SessionDecision(rt.init_session, SessionIdOf[header],
                                sessions, nextSid)
       IN  /\ d.is_new => nextSid < MaxSessions
           /\ req' = [uri |-> uri, cookie |-> header]
           /\ ep_id' = rt.ep_id
           /\ read_body' = rt.read_body
           /\ init_session' = rt.init_session
           /\ IF rt.kind = "static"
              THEN /\ pc' = "static"
                   /\ result' = [kind |-> "static",
                                 sub_path |-> SubSeq(url, Len(StaticPrefix) + 1, Len(url))]
                   /\ target_req' = [EmptyRequest EXCEPT !.uri = uri,
                                        !.cookies = CookiesOf[header]]
                   /\ cookies_to_append' = <<>>
                   /\ chan' = [state |-> "none"]
                   /\ UNCHANGED <<sessions, nextSid>>
              ELSE /\ pc' = "ingest"
                   /\ result' = NoResult
                   /\ chan' = [state |-> "pipeline"]
                   /\ target_req' = [EmptyRequest EXCEPT !.uri = uri,
                                        !.cookies = CookiesOf[header],
                                        !.params = rt.params,
                                        !.session = d.attach]
                   /\ cookies_to_append' = ScheduledCookies(d)
                   /\ IF d.is_new
                      THEN /\ sessions' = sessions \cup {CreateSession(nextSid)}
                           /\ nextSid' = CreateSession(nextSid)
                      ELSE UNCHANGED <<sessions, nextSid>>
    /\ body' = <<>>
    /\ sent' = <<>>
    /\ calls' = <<>>
    /\ resolved' = 0
    /\ UNCHANGED <<ctx, orphan, appVars>>

\* ---- body ingestion

\* body.len() + chunk.len() > max_request_body_size
TooLarge(buf, chunk, max) == Len(buf) + Len(chunk) > max

\* A buffer that takes each chunk at its front.
IngestPrepending(buf, chunk, flag) == IF flag THEN chunk \o buf ELSE buf

\* The buffer after a chunk that passed the size check.
Ingest(buf, chunk, flag) == IF flag THEN buf \o chunk ELSE buf

\* The transport delivers a chunk to the for_each closure.
BodyChunk(chunk) ==
    /\ pc = "ingest"
    /\ Len(sent) < MaxChunks
    /\ sent' = Append(sent, chunk)
    /\ IF TooLarge(body, chunk, ctx.max_request_body_size)
       THEN /\ body' = <<>>
            /\ pc' = "done"
            /\ result' = [kind |-> "err", error |-> "too large"]
            /\ resolved' = resolved + 1
            /\ chan' = [state |-> "dropped"]
       ELSE /\ body' = Ingest(body, chunk, read_body)
            /\ UNCHANGED <<pc, result, resolved, chan>>
    /\ UNCHANGED <<ctx, sessions, nextSid, req, target_req, ep_id, read_body,
                   init_session, cookies_to_append, calls,
                   orphan, appVars>>

\* ---- handoff

\* What the external handler does with the call handle while the handoff
\* call is still running: nothing yet, fulfil it, or drop it.
HandlerMoves == {[do |-> "defer"], [do |-> "drop"]}
                    \cup {[do |-> "send", resp |-> r] : r \in Responses}

\* The channel after the handler acted on the call handle.
ChannelAfter(move) ==
    IF move.do = "send" THEN [state |-> "sent", value |-> move.resp]
    ELSE IF move.do = "drop" THEN [state |-> "canceled"]
    ELSE [state |-> "handler"]

\* A handoff that calls the handler for matched endpoints only.
HandlerCallsMatchedOnly(id, request) ==
    IF id = 0 - 1 THEN <<>> ELSE << [ep_id |-> id, req |-> request] >>

\* The calls made to the external handler at handoff.
HandlerCalls(id, request) == << [ep_id |-> id, req |-> request] >>

\* The body stream ends: the map closure sets the body, boxes the CallInfo
\* and calls the external handler, which may act before it returns.
Handoff(move) ==
    /\ pc = "ingest"
    /\ target_req' = [target_req EXCEPT !.body = body]
    /\ calls' = calls \o HandlerCalls(ep_id, target_req')
    /\ chan' = ChannelAfter(move)
    /\ pc' = "await"
    /\ UNCHANGED <<ctx, sessions, nextSid, req, ep_id, read_body, init_session,
                   cookies_to_append, body, sent, result, resolved,
                   orphan, appVars>>

\* ---- the external handler, later and from its own execution context

\* ice_core_fire_callback: tx.send(resp).
FireCallback(resp) ==
    /\ pc = "await"
    /\ chan.state = "handler"
    /\ chan' = ChannelAfter([do |-> "send", resp |-> resp])
    /\ UNCHANGED <<ctx, sessions, nextSid, pc, req, target_req, ep_id, read_body,
                   init_session, cookies_to_append, body, sent, calls, result, resolved,
                   orphan, appVars>>

\* The handler frees the CallInfo without sending.
DropCallInfo ==
    /\ pc = "await"
    /\ chan.state = "handler"
    /\ chan' = ChannelAfter([do |-> "drop"])
    /\ UNCHANGED <<ctx, sessions, nextSid, pc, req, target_req, ep_id, read_body,
                   init_session, cookies_to_append, body, sent, calls, result, resolved,
                   orphan, appVars>>

\* ---- assembly

\* Cookie entries of the envelope only: the scheduled ones are left out.
CookiesVecEnvelopeOnly(resp_cookies, scheduled) ==
    [i \in 1..Len(resp_cookies) |-> <<resp_cookies[i][1], "=", resp_cookies[i][2]>>]

\* k.clone() + "=" + v for every cookie of the envelope, then for every
\* scheduled entry.
CookiesVec(resp_cookies, scheduled) ==
    [i \in 1..Len(resp_cookies) |-> <<resp_cookies[i][1], "=", resp_cookies[i][2]>>]
    \o [i \in 1..Len(scheduled) |-> <<scheduled[i][1], "=", scheduled[i][2]>>]

\* The headers the assembly sets itself; set / set_raw replace what the
\* envelope's header map held under the same name.
AssemblyHeaders == {"X-Powered-By", "Set-Cookie", "Content-Length"}

RECURSIVE Replaced(_, _)
\* The entries of the envelope's header map that survive the assembly.
Replaced(headers, names) ==
    IF headers = <<>> THEN <<>>
    ELSE (IF Head(headers)[1] \in names THEN <<>> ELSE <<Head(headers)>>)
             \o Replaced(Tail(headers), names)

\* The transport response assembled from a Response Envelope.
Assemble(resp, scheduled) ==
    [kind |-> "ok",
     status |-> resp.status,
     body |-> resp.body,
     headers |-> Replaced(resp.headers, AssemblyHeaders),
     x_powered_by |-> "Ice Core",
     set_cookie |-> CookiesVec(resp.cookies, scheduled),
     content_length |-> Len(resp.body)]

\* A join that takes a canceled receiver for an empty response.
ResolutionIgnoringCancel(ch, scheduled) ==
    IF ch.state = "sent" THEN Assemble(ch.value, scheduled)
    ELSE Assemble([status |-> 200, headers |-> <<>>, cookies |-> <<>>, body |-> <<>>],
                  scheduled)

\* What the joined future resolves to once the receiver is ready.
Resolution(ch, scheduled) ==
    IF ch.state = "sent" THEN Assemble(ch.value, scheduled)
    ELSE [kind |-> "err", error |-> "canceled"]

\* The task is woken because the receiver is ready: the join completes.
Resolve ==
    /\ pc = "await"
    /\ chan.state \in {"sent", "canceled"}
    /\ result' = Resolution(chan, cookies_to_append)
    /\ resolved' = resolved + 1
    /\ pc' = "done"
    /\ chan' = [state |-> IF chan.state = "sent" THEN "received" ELSE "canceled"]
    /\ UNCHANGED <<ctx, sessions, nextSid, req, target_req, ep_id, read_body,
                   init_session, cookies_to_append, body, sent, calls,
                   orphan, appVars>>

\* ---- the pipeline task is dropped

\* The handler holds no call handle of a dropped task, and no
\* ice_core_fire_callback was made on one.
NoOrphan == [held |-> 0, ret |-> <<>>]

\* The pipeline task is dropped before completion (the client went away):
\* the future, its closures and the receiver go with it.  A call handle
\* already handed off stays with the handler, its receiver gone.
DropTask ==
    /\ pc \in {"ingest", "await"}
    /\ (pc = "await" /\ chan.state = "handler") => orphan.held < MaxOrphans
    /\ pc' = "dropped"
    /\ chan' = [state |-> "dropped"]
    /\ orphan' = IF pc = "await" /\ chan.state = "handler"
                 THEN [orphan EXCEPT !.held = @ + 1]
                 ELSE orphan
    /\ UNCHANGED <<ctx, sessions, nextSid, req, target_req, ep_id, read_body,
                   init_session, cookies_to_append, body, sent, calls, result,
                   resolved, appVars>>

\* A fire_callback that reports success whatever tx.send returned.
FireCallbackReturnIgnoringSend(ch) == TRUE

\* match call_info.tx.send(resp) { Ok(_) => true, Err(_) => false }: the send
\* succeeds when the receiver is alive and nothing was sent before.
FireCallbackReturn(ch) == ch.state = "handler"

\* ice_core_fire_callback on the call handle of a dropped task.
FireCallbackLate(resp) ==
    /\ orphan.held > 0
    /\ orphan' = [held |-> orphan.held - 1,
                  ret |-> <<FireCallbackReturn([state |-> "receiver gone"])>>]
    /\ UNCHANGED <<ctx, sessions, nextSid, pc, req, target_req, ep_id, read_body,
                   init_session, cookies_to_append, body, sent, chan, calls, result,
                   resolved, appVars>>

\* The handler frees the call handle of a dropped task without sending.
DropCallInfoLate ==
    /\ orphan.held > 0
    /\ orphan' = [orphan EXCEPT !.held = @ - 1]
    /\ UNCHANGED <<ctx, sessions, nextSid, pc, req, target_req, ep_id, read_body,
                   init_session, cookies_to_append, body, sent, chan, calls, result,
                   resolved, appVars>>

\* ---- a call handle used twice

\* What a second ice_core_fire_callback on a call handle already consumed can
\* do: Box::from_raw takes a CallInfo that was freed by the first call, which
\* is undefined.  The freed sender may still read as completed (the send is
\* refused), the allocator may detect the double free (the process aborts),
\* or the channel's shared state is released under the receiver, which then
\* takes whatever lies there for the response.
DoubleUseOutcomes == {"refused", "abort", "overwritten"}

\* ice_core_fire_callback a second time on the call handle of the request.
FireCallbackAgain(resp, outcome) ==
    /\ pc \in {"await", "done"}
    /\ chan.state \in {"sent", "received"}
    /\ \/ /\ outcome = "refused"
          /\ UNCHANGED <<pc, chan>>
       \/ /\ outcome = "abort"
          /\ pc' = "fault"
          /\ UNCHANGED chan
       \/ /\ outcome = "overwritten"
          /\ chan.state = "sent"
          /\ chan' = [chan EXCEPT !.value = resp]
          /\ UNCHANGED pc
    /\ UNCHANGED <<ctx, sessions, nextSid, req, target_req, ep_id, read_body,
                   init_session, cookies_to_append, body, sent, calls, result,
                   resolved, orphan, appVars>>

\* ---- the session store's own activity

\* A stored session expires.
ExpireSession(sid) ==
    /\ sid \in sessions
    /\ sessions' = sessions \ {sid}
    /\ UNCHANGED <<ctx, nextSid, pc, req, target_req, ep_id, read_body, init_session,
                   cookies_to_append, body, sent, chan, calls, result, resolved,
                   orphan, appVars>>

InitDispatcher ==
    /\ ctx \in [max_request_body_size : 0..MaxBody, static_dir : BOOLEAN]
    /\ sessions = {}
    /\ nextSid = 0
    /\ pc = "idle"
    /\ req = [uri |-> <<>>, cookie |-> [present |-> FALSE, pairs |-> <<>>]]
    /\ target_req = EmptyRequest
    /\ ep_id = 0 - 1
    /\ read_body = FALSE
    /\ init_session = FALSE
    /\ cookies_to_append = <<>>
    /\ body = <<>>
    /\ sent = <<>>
    /\ chan = [state |-> "none"]
    /\ calls = <<>>
    /\ result = NoResult
    /\ resolved = 0
    /\ orphan = NoOrphan

\* ---- the specifications

\* The Application alone; no request arrives.
InitMigration ==
    /\ InitApplication
    /\ InitContainer
    /\ exports = {}
    /\ InitRegistry
    /\ config = <<>>
    /\ InitDispatcher
    /\ ctx.max_request_body_size = 0
    /\ ~ctx.static_dir

NextMigration ==
    \/ \E i \in 1..MaxMem, b \in ByteVals : WriteByte(i, b)
    \/ GrowMemory
    \/ \E i \in 1..NGlobals, v \in GlobalVals : SetGlobal(i, v)
    \/ \E p \in PairSet, v \in NsVals : NsMutate(p[1], p[2], v)
    \/ \E hook \in [PairSet -> BOOLEAN] : StartMigration(hook)
    \/ CompleteMigrationOwn
    \/ \E mig \in ForeignSnapshots : CompleteMigrationForeign(mig)

SpecMigration == InitMigration /\ [][NextMigration]_vars

\* The dispatcher alone; the Application is left as constructed.
InitDispatch ==
    /\ InitDispatcher
    /\ InitContainer
    /\ exports = {}
    /\ InitRegistry
    /\ config = <<>>
    /\ InitApplication
    /\ mem = <<>>
    /\ globals = [i \in 1..NGlobals |-> 0]

NextDispatch ==
    \/ \E uri \in Uris, header \in CookieHeaders : FireHandlers(uri, header)
    \/ \E chunk \in Chunks : BodyChunk(chunk)
    \/ \E move \in HandlerMoves : Handoff(move)
    \/ \E resp \in Responses : FireCallback(resp)
    \/ DropCallInfo
    \/ Resolve
    \/ \E sid \in 1..MaxSessions : ExpireSession(sid)

SpecDispatch == InitDispatch /\ [][NextDispatch]_vars

\* The dispatcher under its scheduling: a task whose receiver is ready is
\* woken and polled, and the handler eventually fulfils or drops every call
\* handle it holds.
FairDispatch ==
    /\ SpecDispatch
    /\ WF_vars(Resolve)
    /\ WF_vars((\E resp \in Responses : FireCallback(resp)) \/ DropCallInfo)

\* The dispatcher with a handler that may also use a call handle twice, and
\* with tasks that may be dropped before completion; the requests are those
\* to endpoints that take no session.
CallHandleUris == {uri \in Uris : ~RouteOf[uri][FALSE].init_session}

InitCallHandle ==
    /\ InitDispatch
    /\ ctx = [max_request_body_size |-> MaxBody, static_dir |-> FALSE]

NextCallHandle ==
    \/ \E uri \in CallHandleUris, header \in CookieHeaders : FireHandlers(uri, header)
    \/ \E chunk \in Chunks : BodyChunk(chunk)
    \/ \E move \in HandlerMoves : Handoff(move)
    \/ \E resp \in Responses : FireCallback(resp)
    \/ DropCallInfo
    \/ Resolve
    \/ DropTask
    \/ \E resp \in Responses : FireCallbackLate(resp)
    \/ DropCallInfoLate
    \/ \E resp \in Responses, outcome \in DoubleUseOutcomes : FireCallbackAgain(resp, outcome)

SpecCallHandle == InitCallHandle /\ [][NextCallHandle]_vars

\* Body ingestion: requests to endpoints that take no session, with bodies
\* whose chunks differ from one another, under every configured maximum.
BodyChunks == Chunks \cup { <<6>> }

InitIngestion ==
    /\ InitDispatch
    /\ ~ctx.static_dir

NextIngestion ==
    \/ \E uri \in CallHandleUris, header \in CookieHeaders : FireHandlers(uri, header)
    \/ \E chunk \in BodyChunks : BodyChunk(chunk)
    \/ \E move \in HandlerMoves : Handoff(move)
    \/ \E resp \in Responses : FireCallback(resp)
    \/ DropCallInfo
    \/ Resolve
    \/ DropTask

SpecIngestion == InitIngestion /\ [][NextIngestion]_vars

\* The Application's entry points alone.
InitInvoke ==
    /\ InitContainer
    /\ InitRegistry
    /\ config = <<>>
    /\ InitApplication
    /\ mem = <<>>
    /\ globals = [i \in 1..NGlobals |-> 0]
    /\ InitDispatcher
    /\ ctx = [max_request_body_size |-> 0, static_dir |-> FALSE]

NextInvoke ==
    \/ \E k \in 0..4 : \E input \in InvokeInputs(k) : InvokeCall(k, input)
    \/ \E raw \in RawResults : InvokeReturn(raw)
    \/ \E name \in InitializerNames : InitializeCall(name)
    \/ \E raw \in RawResults : InitializeReturn(raw)
    \/ \E outcome \in TrapOutcomes : Trap(outcome)

SpecInvoke == InitInvoke /\ [][NextInvoke]_vars

\* The permission check against a registry that is reloaded.
InitPermission ==
    /\ InitRegistry
    /\ InitContainer
    /\ exports = {}
    /\ InitApplication
    /\ mem = <<>>
    /\ globals = [i \in 1..NGlobals |-> 0]
    /\ InitDispatcher
    /\ ctx = [max_request_body_size |-> 0, static_dir |-> FALSE]

NextPermission ==
    \/ \E p \in Permissions : CheckPermissionLookup(p)
    \/ CheckPermissionRead
    \/ \E cfg \in ConfigSnapshots : ReloadConfig(cfg)

SpecPermission == InitPermission /\ [][NextPermission]_vars

\* =====================================================================
\* Properties
\* =====================================================================

\* A step that is a complete_migration call.
RestoreStep == last' # last /\ last'.op = "complete_migration"

Max(a, b) == IF a >= b THEN a ELSE b

\* C3: a snapshot captured from the Application and restored into it, after
\* any mutation that does not shrink the memory, brings every global, every
\* memory byte within the snapshot's length and every namespace's state back
\* to its value at capture time; with no mutation in between the restore
\* changes nothing.
C3_RoundTrip ==
    [][(snap # NoSnapshot /\ snap' = NoSnapshot) =>
          /\ last'.outcome = "restored"
          /\ globals' = capState.globals
          /\ Len(mem') >= Len(capState.mem)
          /\ \A i \in 1..Len(capState.mem) : mem'[i] = capState.mem[i]
          /\ nsState' = capState.ns
          /\ (<<mem, globals, nsState>> = <<capState.mem, capState.globals, capState.ns>>
                 => <<mem', globals', nsState'>> = <<mem, globals, nsState>>)]_vars

\* C3 witness: the Application's own snapshot was restored after its memory
\* had grown beyond the snapshot's length.
C3_Witness ==
    /\ last.op = "complete_migration"
    /\ last.origin = "self"
    /\ last.outcome = "restored"
    /\ Len(mem) > Len(last.mig.memory)

\* C4: complete_migration of a snapshot whose code hash differs from the
\* Application's fails and leaves memory (contents and length), globals and
\* every namespace's state as they were.
C4_HashMismatchNoMutation ==
    [][(RestoreStep /\ last'.mig.code_sha256 # AppHash) =>
          /\ last'.outcome = "panic_checksum"
          /\ mem' = mem
          /\ globals' = globals
          /\ nsState' = nsState]_vars

\* C4 witness: a restore was refused for its hash although the snapshot's
\* memory is longer than the Application's.
C4_Witness ==
    /\ last.outcome = "panic_checksum"
    /\ Len(last.mig.memory) > Len(mem)
    /\ last.mig.globals # globals

\* C5 (as claimed): whatever fatal condition makes complete_migration fail,
\* memory, globals and every namespace's state are as before the call.
C5_FailedRestoreNoMutation ==
    [][(RestoreStep /\ last'.outcome # "restored") =>
          /\ mem' = mem
          /\ globals' = globals
          /\ nsState' = nsState]_vars

\* C8: a successful restore with current length L and snapshot length S
\* leaves a memory of length max(L, S) whose first S bytes are the
\* snapshot's and whose bytes from S on keep their values.
C8_MemoryGrowOnly ==
    [][(RestoreStep /\ last'.outcome = "restored") =>
          LET L == Len(mem)
              S == Len(last'.mig.memory)
          IN  /\ Len(mem') = Max(L, S)
              /\ Len(mem') >= L
              /\ \A i \in 1..S : mem'[i] = last'.mig.memory[i]
              /\ \A i \in (S + 1)..L : mem'[i] = mem[i]]_vars

\* C8 witness: a foreign snapshot shorter than the current memory was
\* restored, so bytes beyond the copy exist.
C8_Witness ==
    /\ last.outcome = "restored"
    /\ last.origin = "foreign"
    /\ 0 < Len(last.mig.memory)
    /\ Len(last.mig.memory) < Len(mem)

\* The snapshot holds a blob for every resolver/namespace pair.
HasAllBlobs(mig) ==
    \A p \in PairSet : p[1] \in DOMAIN mig.modules /\ p[2] \in DOMAIN mig.modules[p[1]]

\* C9: complete_migration succeeds exactly when the hashes match, the global
\* counts match and the snapshot holds a blob for every resolver/namespace
\* pair; otherwise it ends in a panic; on success the globals are the
\* snapshot's in order and each namespace's restore hook was fed its own
\* blob exactly once.
C9_RestorePreconditions ==
    last.op = "complete_migration" =>
        /\ last.outcome = "restored" <=>
              /\ last.mig.code_sha256 = AppHash
              /\ Len(last.mig.globals) = NGlobals
              /\ HasAllBlobs(last.mig)
        /\ last.mig.code_sha256 # AppHash => last.outcome = "panic_checksum"
        /\ (last.mig.code_sha256 = AppHash /\ Len(last.mig.globals) # NGlobals)
              => last.outcome = "panic_global_len"
        /\ (last.mig.code_sha256 = AppHash /\ Len(last.mig.globals) = NGlobals
                /\ ~HasAllBlobs(last.mig))
              => last.outcome \in {"panic_module_not_found", "panic_namespace_not_found"}
        /\ last.outcome = "restored" =>
              /\ globals = last.mig.globals
              /\ \A p \in PairSet :
                    /\ Cardinality({i \in 1..Len(last.fed) :
                           last.fed[i][1] = p[1] /\ last.fed[i][2] = p[2]}) = 1
                    /\ <<p[1], p[2], last.mig.modules[p[1]][p[2]]>>
                           \in {last.fed[i] : i \in 1..Len(last.fed)}
              /\ Len(last.fed) = Len(Pairs)

\* C9 witness: a snapshot that came from elsewhere was restored.
C9_Witness ==
    /\ last.op = "complete_migration"
    /\ last.origin = "foreign"
    /\ last.outcome = "restored"
    /\ globals = last.mig.globals

\* C10: a snapshot returned by start_migration holds exactly one blob per
\* namespace of every resolver, keyed by resolver then namespace name, a
\* byte-for-byte copy of the memory, the globals in declaration order and
\* the Application's hash; a capture in which a hook yields nothing panics
\* and returns no snapshot.
C10_CaptureComplete ==
    last.op = "start_migration" =>
        /\ last.outcome \in {"captured", "panic_unable_to_migrate"}
        /\ last.outcome = "panic_unable_to_migrate" => last.mig = NoSnapshot
        /\ last.outcome = "captured" =>
              /\ snap = last.mig
              /\ DOMAIN last.mig.modules = ResolverSet
              /\ \A k \in ResolverSet :
                    /\ DOMAIN last.mig.modules[k] = NamespaceSet(k)
                    /\ \A n \in NamespaceSet(k) :
                          last.mig.modules[k][n] = NsStartMigration(nsState[k][n], TRUE)
              /\ last.mig.memory = mem
              /\ last.mig.globals = globals
              /\ last.mig.code_sha256 = AppHash

\* C10 witness: a capture of a non-trivial Application state succeeded.
C10_Witness ==
    /\ last.op = "start_migration"
    /\ last.outcome = "captured"
    /\ Len(mem) = MaxMem
    /\ \E i \in 1..Len(mem) : mem[i] # 0
    /\ \E p \in PairSet : nsState[p[1]][p[2]] # 0

RECURSIVE Total(_)
\* The cumulative size of a sequence of chunks.
Total(chunks) == IF chunks = <<>> THEN 0 ELSE Len(Head(chunks)) + Total(Tail(chunks))

\* A request is in the pipeline (it was not delegated to the static-file
\* collaborator).
InPipeline == pc \in {"ingest", "await", "done"}

\* C1 (as claimed): whatever the read_body flag, a request whose chunks stay
\* within the maximum in total is handed to the external handler exactly
\* once, after the last chunk; a request whose chunks exceed it in total
\* fails as oversized and the handler is never called.
C1_BodyLimit ==
    InPipeline =>
        /\ Total(sent) > ctx.max_request_body_size =>
              /\ pc = "done"
              /\ result = [kind |-> "err", error |-> "too large"]
              /\ calls = <<>>
        /\ (pc \in {"await", "done"} /\ Total(sent) <= ctx.max_request_body_size) =>
              Len(calls) = 1
        /\ pc = "ingest" => calls = <<>>

\* C2: a request that reached handoff resolves its future exactly once: the
\* channel is fulfilled at most once, the future never resolves twice, and
\* under the handler fulfilling or dropping the call handle it does resolve,
\* with the assembled response when the handler sent an envelope and with
\* the channel's failure when the sender was dropped.
C2_ResolvesOnce ==
    /\ [](resolved <= 1)
    /\ [](pc = "done" => resolved = 1)
    /\ [](pc \in {"ingest", "await"} => resolved = 0)
    /\ []((pc = "done" /\ calls # <<>>) =>
             \/ result.kind = "ok" /\ chan.state = "received"
             \/ result = [kind |-> "err", error |-> "canceled"] /\ chan.state = "canceled")
    /\ [][(pc = "await" /\ chan.state = "sent") =>
             /\ chan' = chan \/ chan'.state = "received"
             /\ pc' = "done" => result' = Assemble(chan.value, cookies_to_append)]_vars
    /\ [](pc = "await" => <>(pc = "done"))

\* C2 witness: the handler fulfilled the call handle and the future resolved
\* once with the assembled response.
C2_Witness ==
    /\ pc = "done"
    /\ calls # <<>>
    /\ resolved = 1
    /\ result.kind = "ok"
    /\ result.status = 404

\* A request enters the pipeline.
ArrivalStep == pc # "ingest" /\ pc' = "ingest"

\* The entries of a Set-Cookie value that carry the session cookie.
SessionEntries(set_cookie) ==
    {set_cookie[i] : i \in {j \in 1..Len(set_cookie) : set_cookie[j][1] = SessionCookieName}}

\* C6: a request to an init_session endpoint that presents no session id
\* creates exactly one session and schedules its Set-Cookie entry, which the
\* assembled response carries; a request presenting an id the store holds
\* gets that session, creates none and schedules no Set-Cookie entry.
C6_SessionCookie ==
    /\ [][(ArrivalStep /\ init_session') =>
            LET c == PresentedSessionId(req'.cookie)
            IN  /\ c = 0 =>
                      /\ Cardinality(sessions' \ sessions) = 1
                      /\ sessions \subseteq sessions'
                      /\ target_req'.session \in {<<n>> : n \in sessions' \ sessions}
                      /\ cookies_to_append' =
                             << <<SessionCookieName, target_req'.session[1]>> >>
                /\ (c # 0 /\ c \in sessions) =>
                      /\ target_req'.session = <<c>>
                      /\ sessions' = sessions
                      /\ nextSid' = nextSid
                      /\ cookies_to_append' = <<>>]_vars
    /\ []((pc = "done" /\ result.kind = "ok") =>
             SessionEntries(result.set_cookie) =
                 {<<cookies_to_append[i][1], "=", cookies_to_append[i][2]>> :
                      i \in 1..Len(cookies_to_append)})

\* C6 witness: a request presenting the id of a stored session was answered
\* with that session attached and no Set-Cookie entry for it.
C6_Witness ==
    /\ pc = "done"
    /\ result.kind = "ok"
    /\ init_session
    /\ PresentedSessionId(req.cookie) # 0
    /\ target_req.session = <<PresentedSessionId(req.cookie)>>
    /\ SessionEntries(result.set_cookie) = {}

\* The request matched no route and was not delegated to the static-file
\* collaborator.
Unmatched == InPipeline /\ GetRawEndpoint(BeforeQuery(req.uri)) = <<>>

\* C7 (as claimed): an unmatched request proceeds with endpoint id -1 and
\* both flags unset, and the external handler is never invoked for it.
C7_UnmatchedNeverHandled ==
    Unmatched =>
        /\ ep_id = 0 - 1
        /\ ~read_body
        /\ ~init_session
        /\ calls = <<>>

\* C7 (amended): an unmatched request proceeds with endpoint id -1 and both
\* flags unset; the external handler is not invoked before the body stream
\* ends nor when a chunk exceeds the maximum, and is invoked exactly once,
\* with endpoint id -1, at handoff.
C7_UnmatchedHandoff ==
    Unmatched =>
        /\ ep_id = 0 - 1
        /\ ~read_body
        /\ ~init_session
        /\ target_req.session = <<>>
        /\ body = <<>>
        /\ pc = "ingest" => calls = <<>>
        /\ pc = "await" => Len(calls) = 1 /\ calls[1].ep_id = 0 - 1
        /\ pc = "done" =>
              \/ result = [kind |-> "err", error |-> "too large"] /\ calls = <<>>
              \/ result.kind # "none" /\ Len(calls) = 1 /\ calls[1].ep_id = 0 - 1

\* C7 witness: an unmatched request under the static prefix, with no static
\* root configured, was handed to the external handler after its chunks.
C7_Witness ==
    /\ Unmatched
    /\ StartsWith(req.uri, StaticPrefix)
    /\ pc = "await"
    /\ sent # <<>>
    /\ calls[1].ep_id = 0 - 1

\* A second ice_core_fire_callback on the call handle of the request, after
\* the first fulfilled it.
SecondFulfilment ==
    \E resp \in Responses, outcome \in DoubleUseOutcomes : FireCallbackAgain(resp, outcome)

\* C11 (as claimed): a second fulfilment attempt on a call handle already
\* fulfilled is rejected or ignored: the process goes on, the channel keeps
\* the response it was given, the result already delivered stays and the
\* future does not resolve again.
C11_SecondFulfilmentIgnored ==
    [][SecondFulfilment =>
          /\ pc' = pc
          /\ chan' = chan
          /\ result' = result
          /\ resolved' = resolved]_vars

\* An ice_core_fire_callback on the call handle of a dropped task.
LateFulfilment == \E resp \in Responses : FireCallbackLate(resp)

\* C12: once a request's task was dropped, a later ice_core_fire_callback on
\* its call handle returns false and is a no-op: the dropped request never
\* gets a response assembled or delivered, and the request then in flight
\* keeps its channel, its envelope, its calls and its result.
C12_LateCallbackNoOp ==
    /\ [][LateFulfilment =>
             /\ orphan'.ret = <<FALSE>>
             /\ orphan'.held = orphan.held - 1
             /\ UNCHANGED <<pc, chan, result, resolved, calls, target_req,
                            cookies_to_append, body, sent, sessions>>]_vars
    /\ [](orphan.ret \in {<<>>, <<FALSE>>})
    /\ [](pc = "dropped" => (result = NoResult /\ resolved = 0))
    /\ [][pc = "dropped" => (pc' = "dropped" \/ pc' \in {"ingest", "static"})]_vars

\* C12 witness: the handler fired the callback on the call handle of a
\* dropped task, got false, and the next request still awaits its own
\* response.
C12_Witness ==
    /\ orphan.ret = <<FALSE>>
    /\ orphan.held = 0
    /\ pc = "await"
    /\ chan.state = "handler"
    /\ resolved = 0

\* The route lookup and the path segments of every URI the transport presents.
MatchOf == [uri \in Uris |-> GetRawEndpoint(BeforeQuery(uri))]

SegmentsOf == [uri \in Uris |-> Segments(BeforeQuery(uri))]

\* The places, in path order, of the segments that begin with the marker.
MarkerPlaces(segs) == {i \in 1..Len(segs) : segs[i][1] = ":"}

\* The i-th smallest element of a set of numbers.
RECURSIVE Nth(_, _)
Nth(S, i) == IF i = 1 THEN Min(S) ELSE Nth(S \ {Min(S)}, i - 1)

\* C13: when the matched endpoint declares k parameter names and the path
\* has exactly k marker segments, the envelope's parameter map has exactly k
\* entries: the i-th marker segment, less its marker, under the i-th
\* declared name; the handler receives that map.
C13_ParamsBound ==
    (pc \in {"ingest", "await", "done"} /\ MatchOf[req.uri] # <<>>) =>
        LET names == MatchOf[req.uri][1].param_names
            segs == SegmentsOf[req.uri]
            places == MarkerPlaces(segs)
        IN  Cardinality(places) = Len(names) =>
                /\ Cardinality(DOMAIN target_req.params) = Len(names)
                /\ \A i \in 1..Len(names) :
                       /\ names[i] \in DOMAIN target_req.params
                       /\ <<":">> \o target_req.params[names[i]] = segs[Nth(places, i)]
                /\ \A c \in 1..Len(calls) : calls[c].req.params = target_req.params

\* C13 witness: a path with two marker segments reached the handler of an
\* endpoint declaring two names.
C13_Witness ==
    /\ pc = "await"
    /\ calls # <<>>
    /\ MatchOf[req.uri] # <<>>
    /\ Len(MatchOf[req.uri][1].param_names) = 2
    /\ Cardinality(MarkerPlaces(SegmentsOf[req.uri])) = 2
    /\ target_req.params[<<"b">>] = <<"2", "3">>

\* The low 32 bits of a 64-bit value.
LowWord(w) == <<w[1], w[2]>>

\* The signed integer whose 32 bits are those of u.
SignedOf(u) == IF u[2] >= 2^15 THEN (u[2] - 2^16) * 2^16 + u[1] ELSE u[2] * 2^16 + u[1]

\* C14: invokeK(target, arg1 .. argK) makes exactly one call into the
\* sandbox, to the entry point of K arguments, passing target and the
\* arguments in order, each as the 64-bit value with the argument's 32 bits
\* below and zeros above; it returns the low 32 bits of the entry point's
\* result as a signed integer.
C14_InvokeAbi ==
    /\ entered.op = "invoke" =>
          /\ Len(entered.calls) = 1
          /\ entered.calls[1].fn = EntryPointNames[entered.k + 1]
          /\ Len(entered.input) = entered.k + 1
          /\ Len(entered.calls[1].args) = entered.k + 1
          /\ \A i \in 1..(entered.k + 1) :
                 LET w == entered.calls[1].args[i]
                 IN  /\ Len(w) = 4
                     /\ w[3] = 0
                     /\ w[4] = 0
                     /\ SignedOf(LowWord(w)) = entered.input[i]
    /\ (returned.op = "invoke" /\ returned.outcome = "returned") =>
          /\ returned.ret \in I32Min..I32Max
          /\ AsU32(returned.ret) = LowWord(returned.raw)

\* C14 witness: invoke4 passed the most negative target and -1, and an
\* invocation returned 5 for a result of 2^32 + 5.
C14_Witness ==
    /\ entered.op = "invoke"
    /\ entered.k = 4
    /\ entered.input = <<I32Min, 0 - 1, 0, 1, I32Max>>
    /\ entered.calls[1].args[1] = <<0, 2^15, 0, 0>>
    /\ entered.calls[1].args[2] = <<2^16 - 1, 2^16 - 1, 0, 0>>
    /\ returned.op = "invoke"
    /\ returned.outcome = "returned"
    /\ returned.raw = <<5, 0, 1, 0>>
    /\ returned.ret = 5

\* The places of the Application's own entry in the configuration snapshot.
OwnEntries == {i \in 1..Len(config) : config[i].name = AppName}

\* C16 (as claimed): whatever the registry and the configuration snapshot
\* hold, the Application's name missing included, check_permission never
\* panics and authorizes exactly when the Application's configuration entry
\* declares the requested permission.
C16_PermissionBinary ==
    /\ [](perm.pc # "panicked")
    /\ [](perm.outcome \in {"none", "ok", "err"})
    /\ [][(perm.pc = "looked_up" /\ perm'.pc = "idle") =>
             (perm'.outcome = "ok" <=>
                  \E i \in OwnEntries : perm.requested \in config[i].permissions)]_vars

\* An initialize call ends, by whatever path leaves the process running.
InitializeEnds ==
    /\ returned' # returned
    /\ returned'.op = "initialize"
    /\ returned'.outcome \in {"absent", "ok", "panic_initializer_failure", "panic_trap"}

\* C17: the reentrancy counter is balanced: when an initialize call ends -
\* the initializer absent, returning zero or reporting failure, nested or
\* not - the counter is back at its value before the call; it is 0 whenever
\* no entry is active and never goes below 0.
C17_CounterBalanced ==
    /\ [][InitializeEnds => currently_inside' = returned'.before]_vars
    /\ [](stack = <<>> => currently_inside = 0)
    /\ [](currently_inside >= 0)

\* C17 witness: an initialize nested in another returned zero and left the
\* counter at 1, the outer call being still active.
C17_Witness ==
    /\ returned.op = "initialize"
    /\ returned.outcome = "ok"
    /\ returned.before = 1
    /\ currently_inside = 1
    /\ Len(stack) = 1
    /\ stack[1].op = "initialize"

\* C18 (as claimed): whenever sandboxed code of the Application is executing,
\* entered through initialize or through invoke0..invoke4, the reentrancy
\* counter equals the number of active entries and so is at least 1.
C18_CounterCountsEntries ==
    (stack # <<>> /\ ~HostDown) =>
        /\ currently_inside = Len(stack)
        /\ currently_inside >= 1

\* A transport request arrived: fire_handlers ran, into the pipeline or to
\* the static-file collaborator.
RequestArrives == pc # "ingest" /\ pc' \in {"ingest", "static"}

\* C19: the session decision of every request.  With init_session unset, or
\* no route matched, no session is created or attached and no cookie is
\* scheduled.  With it set the envelope carries exactly one session with a
\* non-empty id: the stored one when the presented id is known to the store,
\* with no Set-Cookie scheduled; a newly created one when no id was presented
\* or the id is unknown, with exactly one Set-Cookie entry scheduled, the new
\* id under the session cookie name.  The handler receives that envelope.
C19_SessionDecision ==
    /\ [][RequestArrives =>
             LET c == PresentedSessionId(req'.cookie)
                 ep == MatchOf[req'.uri]
             IN  /\ init_session' = (ep # <<>> /\ ep[1].init_session)
                 /\ ~init_session' =>
                       /\ sessions' \subseteq sessions
                       /\ nextSid' = nextSid
                       /\ target_req'.session = <<>>
                       /\ cookies_to_append' = <<>>
                 /\ init_session' =>
                       /\ Len(target_req'.session) = 1
                       /\ target_req'.session[1] # 0
                       /\ c \in sessions =>
                             /\ target_req'.session[1] = c
                             /\ sessions' = sessions
                             /\ cookies_to_append' = <<>>
                       /\ c \notin sessions =>
                             /\ target_req'.session[1] \notin sessions
                             /\ sessions' = sessions \cup {target_req'.session[1]}
                             /\ Len(cookies_to_append') = 1
                             /\ cookies_to_append'[1] =
                                    <<SessionCookieName, target_req'.session[1]>>]_vars
    /\ [](\A i \in 1..Len(calls) : calls[i].req.session = target_req.session)
    /\ []((calls # <<>> /\ init_session) =>
             (Len(calls[1].req.session) = 1 /\ calls[1].req.session[1] # 0))

\* C19 witness: a request presenting an id the store does not know reached
\* the handler with a newly created session, its Set-Cookie scheduled.
C19_Witness ==
    /\ pc = "await"
    /\ init_session
    /\ PresentedSessionId(req.cookie) # 0
    /\ PresentedSessionId(req.cookie) \notin sessions
    /\ calls # <<>>
    /\ calls[1].req.session # <<PresentedSessionId(req.cookie)>>
    /\ cookies_to_append = << <<SessionCookieName, calls[1].req.session[1]>> >>

\* The path of the request begins with "/static/".
UnderStatic == StartsWith(UrlOf[req.uri], <<"/", "s", "t", "a", "t", "i", "c", "/">>)

\* C20: the static-file collaborator is invoked exactly when the route
\* lookup misses, the path begins with "/static/" and a static root is
\* configured.  Its future is then what fire_handlers returns, for the path
\* less its leading "/static"; no session is created, no chunk ingested, no
\* channel made or handed off and the handler is not called.  A route match
\* goes before the static prefix.
C20_StaticDelegation ==
    /\ [](pc # "idle" =>
             ((pc = "static") <=>
                  (MatchOf[req.uri] = <<>> /\ UnderStatic /\ ctx.static_dir)))
    /\ [](pc = "static" =>
             /\ result.kind = "static"
             /\ <<"/", "s", "t", "a", "t", "i", "c">> \o result.sub_path = UrlOf[req.uri]
             /\ calls = <<>>
             /\ sent = <<>>
             /\ body = <<>>
             /\ chan.state = "none"
             /\ resolved = 0
             /\ target_req.session = <<>>
             /\ cookies_to_append = <<>>)
    /\ [][pc' = "static" => (sessions' \subseteq sessions /\ nextSid' = nextSid)]_vars
    /\ []((pc # "idle" /\ MatchOf[req.uri] # <<>>) =>
             (pc \in {"ingest", "await", "done"} /\ ep_id = MatchOf[req.uri][1].id))

\* C20 witness: with sessions in the store, a request under the static
\* prefix that matches no route was delegated with sub-path "/f".
C20_Witness ==
    /\ pc = "static"
    /\ ctx.static_dir
    /\ result.kind = "static"
    /\ result.sub_path = <<"/", "f">>
    /\ sessions # {}

\* The name initialize(n) looks up.
GivenOrDefault(n) == IF n = <<>> THEN "__app_init" ELSE n[1]

\* The 64-bit value w is zero.
IsZero(w) == \A i \in 1..Len(w) : w[i] = 0

\* C21: initialize(name) looks the initializer up under the given name, or
\* under "__app_init" when none is given.  When the module does not export
\* it, initialize succeeds and no sandboxed code runs: nothing is entered and
\* the counter is as before.  When it does, that function is called once,
\* with no argument, while the reentrancy counter is one higher; the call
\* ends in success when the function returns zero and in a panic for every
\* nonzero 64-bit return.
C21_Initialize ==
    /\ [][\A n \in InitializerNames :
            InitializeCall(n) =>
              IF GivenOrDefault(n) \in exports
              THEN /\ entered' = [op |-> "initialize", k |-> 0, input |-> n,
                                  calls |-> << [fn |-> GivenOrDefault(n), args |-> <<>>] >>]
                   /\ currently_inside' = currently_inside + 1
                   /\ stack' = Append(stack, [op |-> "initialize",
                                              before |-> currently_inside])
                   /\ returned' = returned
              ELSE /\ returned'.op = "initialize"
                   /\ returned'.outcome = "absent"
                   /\ entered' = entered
                   /\ stack' = stack
                   /\ currently_inside' = currently_inside]_vars
    /\ [][\A raw \in RawResults :
            InitializeReturn(raw) =>
              /\ returned'.op = "initialize"
              /\ returned'.raw = raw
              /\ returned'.outcome =
                     IF IsZero(raw) THEN "ok" ELSE "panic_initializer_failure"
              /\ entered' = entered]_vars
    /\ []((stack # <<>> /\ Top.op = "initialize") => currently_inside >= 1)
    /\ []((returned.op = "initialize" /\ returned.outcome = "ok") => IsZero(returned.raw))

\* C21 witness: initialize(Some("setup")) entered the exported function
\* "setup", which returned a value whose low 32 bits are zero and whose upper
\* bits are not; the call ended in the initialization panic.
C21_Witness ==
    /\ entered.op = "initialize"
    /\ entered.input = <<"setup">>
    /\ entered.calls = << [fn |-> "setup", args |-> <<>>] >>
    /\ returned.op = "initialize"
    /\ returned.outcome = "panic_initializer_failure"
    /\ returned.raw = <<0, 0, 1, 0>>
    /\ currently_inside = 0

\* An initialize that found no initializer: success, nothing entered.
C21_AbsentReached ==
    /\ returned.op = "initialize"
    /\ returned.outcome = "absent"
    /\ entered = NothingEntered
    /\ DefaultInitializer \notin exports

\* The receiver holds a Response Envelope and the join completes with it.
EnvelopeDelivered == pc = "await" /\ chan.state = "sent" /\ pc' = "done"

\* The names of the entries of a header map.
HeaderNames(headers) == {headers[i][1] : i \in 1..Len(headers)}

\* C22: for every Response Envelope delivered through the completion
\* channel the assembled response has the envelope's status and body, a
\* content-length equal to the length of that body, X-Powered-By set to the
\* fixed value, and one Set-Cookie value made of the envelope's cookies, as
\* name=value, followed by the session-cookie entries scheduled for this
\* request, and nothing else: no Set-Cookie, Content-Length or X-Powered-By
\* entry of the envelope's own header map survives.
C22_ResponseAssembly ==
    [][EnvelopeDelivered =>
         LET e == chan.value
             sc == result'.set_cookie
             n == Len(e.cookies)
             m == Len(cookies_to_append)
         IN  /\ result'.kind = "ok"
             /\ result'.status = e.status
             /\ result'.body = e.body
             /\ result'.content_length = Len(e.body)
             /\ result'.x_powered_by = "Ice Core"
             /\ Len(sc) = n + m
             /\ \A i \in 1..n : sc[i] = <<e.cookies[i][1], "=", e.cookies[i][2]>>
             /\ \A j \in 1..m :
                    sc[n + j] = <<cookies_to_append[j][1], "=", cookies_to_append[j][2]>>
             /\ HeaderNames(result'.headers) \cap AssemblyHeaders = {}
             /\ resolved' = 1]_vars

\* C22 witness: an envelope with status 404, a two-byte body, one cookie and
\* header entries of its own (a stale Set-Cookie and a wrong Content-Length
\* among them) was delivered for a request that had a new session's cookie
\* scheduled; the response carries both cookies in that order.
C22_Witness ==
    /\ pc = "done"
    /\ result.kind = "ok"
    /\ result.status = 404
    /\ result.body = <<1, 2>>
    /\ result.content_length = 2
    /\ Len(result.set_cookie) = 2
    /\ result.set_cookie[1] = <<"k", "=", 5>>
    /\ result.set_cookie[2][1] = SessionCookieName
    /\ cookies_to_append # <<>>
    /\ result.headers = << <<"X-Extra", "e">> >>

RECURSIVE Concat(_)
\* The bytes of a sequence of chunks, in the order of the sequence.
Concat(chunks) == IF chunks = <<>> THEN <<>> ELSE Head(chunks) \o Concat(Tail(chunks))

\* The body stream ended and the envelope is handed to the handler.
HandoffStep == pc = "ingest" /\ pc' = "await"

\* C23: in every reachable state the accumulating buffer is no longer than
\* the configured maximum.  While chunks arrive, and at handoff in the
\* Request Envelope the handler receives, the body is the concatenation of
\* the chunks delivered, in the order of their delivery, when read_body is
\* set, and empty when it is not.
C23_BodyBuffer ==
    /\ [](Len(body) <= ctx.max_request_body_size)
    /\ [](pc = "ingest" => body = (IF read_body THEN Concat(sent) ELSE <<>>))
    /\ [][HandoffStep =>
             LET expected == IF read_body THEN Concat(sent) ELSE <<>>
             IN  /\ target_req'.body = expected
                 /\ calls' # <<>>
                 /\ calls'[Len(calls')].req.body = expected
                 /\ Len(expected) <= ctx.max_request_body_size]_vars

\* C23 witness: two different one-byte chunks arrived for an endpoint with
\* read_body set and a maximum of two bytes; the handler received the body
\* made of the first chunk followed by the second.
C23_Witness ==
    /\ pc = "await"
    /\ read_body
    /\ ctx.max_request_body_size = 2
    /\ sent = << <<6>>, <<7>> >>
    /\ target_req.body = <<6, 7>>
    /\ calls # <<>>
    /\ calls[Len(calls)].req.body = <<6, 7>>

\* Chunks drained and discarded: with read_body unset two chunks arrived and
\* the handler received an empty body.
C23_DiscardReached ==
    /\ pc = "await"
    /\ ~read_body
    /\ Len(sent) = 2
    /\ target_req.body = <<>>

====
